---- MODULE Spec2Model ----
(***************************************************************************)
(* A model of opal/views.py: the JSON API views (episode_detail_view,      *)
(* episode_list_and_create_view, EpisodeListView, EpisodeCopyToCategory-   *)
(* View, patient_search_view), the login wrapper check_password_reset and  *)
(* the column-context helpers of the template views.                       *)
(*                                                                         *)
(* Every view is one action.  The database tables the views read and write *)
(* are the variables patients, episodes, items, tagging and profiles; the  *)
(* module-level configuration is LIST_SCHEMAS, column_schema and           *)
(* templates; request, response, emitted and trace record what the last    *)
(* request was, what it answered, which glossolalia notifications it sent  *)
(* and which branches it took.                                             *)
(***************************************************************************)
EXTENDS Integers, Sequences, FiniteSets, TLC

VARIABLES
    patients,       \* Patient table: id -> demographics record
    episodes,       \* Episode table: id -> episode record
    items,          \* rows of the episode subrecord tables
    tagging,        \* rows of the Tagging table
    profiles,       \* UserProfile table: user -> profile record, for the users that have one
    logged_in,      \* users the wrapped login view has answered 302 for
    LIST_SCHEMAS,   \* views.LIST_SCHEMAS
    column_schema,  \* EpisodeTemplateView.column_schema of the view class
    templates,      \* the template files the template loader can find
    request,        \* the request being answered
    response,       \* the response returned for it
    emitted,        \* the glossolalia notifications sent while answering it
    trace           \* branches taken while answering it

vars == <<patients, episodes, items, tagging, profiles, logged_in,
          LIST_SCHEMAS, column_schema, templates,
          request, response, emitted, trace>>

dbVars == <<patients, episodes, items, tagging>>
confVars == <<LIST_SCHEMAS, column_schema, templates>>
authVars == <<profiles, logged_in>>

(***************************************************************************)
(* Bounds                                                                  *)
(***************************************************************************)
MaxLen == 2          \* longest search term
MaxEpisodes == 2     \* most rows of the Episode table
MaxPatients == 2     \* most rows of the Patient table
NumUsers == 3        \* users that can log in

(***************************************************************************)
(* Values                                                                  *)
(***************************************************************************)
None == "None"                       \* Python's None
Empty == <<>>                        \* the empty string, as a string of Chars
Chars == {"a", "B"}                 \* the letters of the search terms
Users == 1..NumUsers

\* a dict with no key / the request before any request was made
NoRequest == [view |-> "none"]
NoResponse == [status |-> 0, body |-> None]
NoTrace == [raised |-> None]

\* all strings over Chars of length at most n
Strs(n) == UNION {[1..k -> Chars] : k \in 0..n}

\* str.lower() of one character and of a string
LowerChar(c) == CASE c = "A" -> "a" [] c = "B" -> "b" [] OTHER -> c
Lower(s) == [i \in 1..Len(s) |-> LowerChar(s[i])]

\* _build_json_response(data, status_code=200)
_build_json_response(data, status_code) == [status |-> status_code, body |-> data]

\* django.http.HttpResponseNotFound()
HttpResponseNotFound == [status |-> 404, body |-> None]

\* what the framework answers when a view raises an exception it does not catch
ServerError == [status |-> 500, body |-> None]

(***************************************************************************)
(* patient_search_view                                                     *)
(***************************************************************************)
\* the demographics rows the search is run over: hospital number, name and
\* date of birth, in both letter cases
PatientPool ==
    <<[hospital_number |-> <<"a">>, name |-> <<"a", "b">>, date_of_birth |-> 2],
      [hospital_number |-> <<"A">>, name |-> <<"b", "A">>, date_of_birth |-> 1],
      [hospital_number |-> <<"b">>, name |-> <<"A", "b", "a">>, date_of_birth |-> 1],
      [hospital_number |-> Empty, name |-> <<"B">>, date_of_birth |-> 2]>>

\* field__iexact=term : equal, ignoring case
iexact(field, term) == Lower(field) = Lower(term)

\* field__icontains=term : term occurs in field, ignoring case
icontains(field, term) ==
    \E i \in 0..(Len(field) - Len(term)) :
        \A j \in 1..Len(term) : LowerChar(field[i + j]) = LowerChar(term[j])

\* QuerySet.filter(**filter_dict) over the Patient table
filter_patients(filter_dict) ==
    {p \in DOMAIN patients :
        /\ "demographics__hospital_number__iexact" \in DOMAIN filter_dict =>
               iexact(patients[p].hospital_number,
                      filter_dict["demographics__hospital_number__iexact"])
        /\ "demographics__name__icontains" \in DOMAIN filter_dict =>
               icontains(patients[p].name,
                         filter_dict["demographics__name__icontains"])}

\* .order_by('demographics__date_of_birth'): every order of the rows S that is
\* ascending in the date of birth (rows with equal dates come in any order)
RECURSIVE order_by_date_of_birth(_)
order_by_date_of_birth(S) ==
    IF S = {} THEN {<<>>}
    ELSE UNION {{<<p>> \o rest : rest \in order_by_date_of_birth(S \ {p})} :
                p \in {q \in S : \A r \in S :
                          patients[q].date_of_birth <= patients[r].date_of_birth}}

\* Patient.to_dict(user)
patient_to_dict(p) == [id |-> p, demographics |-> patients[p]]

\* a dict built key by key: d[k] = v
SetItem(d, k, v) == [x \in DOMAIN d \cup {k} |-> IF x = k THEN v ELSE d[x]]
EmptyDict == [x \in {} |-> None]

\* search_filter_dict with the name test made an elif of the hospital number test
search_filter_dict_elif(GET) ==
    IF "hospital_number" \in DOMAIN GET
    THEN SetItem(EmptyDict, "demographics__hospital_number__iexact", GET["hospital_number"])
    ELSE IF "name" \in DOMAIN GET
    THEN SetItem(EmptyDict, "demographics__name__icontains", GET["name"])
    ELSE EmptyDict

\* lines 296-305: the filter built from the query string
search_filter_dict(GET) ==
    LET f1 == IF "hospital_number" \in DOMAIN GET
              THEN SetItem(EmptyDict, "demographics__hospital_number__iexact",
                           GET["hospital_number"])
              ELSE EmptyDict
    IN  IF "name" \in DOMAIN GET
        THEN SetItem(f1, "demographics__name__icontains", GET["name"])
        ELSE f1

\* the query strings: each of the two terms absent or a string
Queries ==
    UNION {[D -> Strs(MaxLen)] : D \in SUBSET {"hospital_number", "name"}}

patient_search_view(GET) ==
    LET filter_dict == search_filter_dict(GET)
    IN  /\ request' = [view |-> "patient_search_view", method |-> "GET", GET |-> GET]
        /\ IF DOMAIN filter_dict # {}
           THEN \E ordered \in order_by_date_of_birth(filter_patients(filter_dict)) :
                  /\ response' = _build_json_response(
                        [i \in 1..Len(ordered) |-> patient_to_dict(ordered[i])], 200)
                  /\ trace' = [raised |-> None, queried |-> TRUE]
           ELSE /\ response' = _build_json_response([error |-> "No search terms"], 400)
                /\ trace' = [raised |-> None, queried |-> FALSE]
        /\ emitted' = <<>>
        /\ UNCHANGED <<dbVars, confVars, authVars>>

PatientSearch == \E GET \in Queries : patient_search_view(GET)

\* the Patient table is any part of the pool
InitSearch ==
    /\ \E S \in SUBSET (1..Len(PatientPool)) : patients = [p \in S |-> PatientPool[p]]
    /\ episodes = <<>>
    /\ items = {}
    /\ tagging = {}
    /\ profiles = EmptyDict
    /\ logged_in = {}
    /\ LIST_SCHEMAS = EmptyDict
    /\ column_schema = <<>>
    /\ templates = {}
    /\ request = NoRequest
    /\ response = NoResponse
    /\ emitted = <<>>
    /\ trace = NoTrace

NextSearch == PatientSearch

SpecSearch == InitSearch /\ [][NextSearch]_vars

(***************************************************************************)
(* check_password_reset                                                    *)
(***************************************************************************)
\* django.contrib.auth.views.login: answers 302 (a redirect to the page asked
\* for) when the form holds valid credentials, and then request.user is the
\* user logged in; answers 200 with the login form otherwise
login(valid) ==
    IF valid THEN [status |-> 302, body |-> "LOGIN_REDIRECT_URL"]
    ELSE [status |-> 200, body |-> "registration/login.html"]

\* django.shortcuts.redirect(to)
redirect(to) == [status |-> 302, body |-> to]

\* request.user.profile raises UserProfile.DoesNotExist
ProfileDoesNotExist(user) == user \notin DOMAIN profiles

\* profiles_after_login without the create of line 180
profiles_after_login_no_create(user) == profiles

\* lines 175-180: the UserProfile table after a login answered 302
profiles_after_login(user) ==
    IF ProfileDoesNotExist(user)
    THEN SetItem(profiles, user, [force_password_change |-> TRUE])
    ELSE profiles

check_password_reset(user, valid) ==
    LET login_response == login(valid)
    IN  /\ request' = [view |-> "check_password_reset", user |-> user, valid |-> valid,
                       had_profile |-> ~ProfileDoesNotExist(user),
                       had_force |-> IF ProfileDoesNotExist(user) THEN FALSE
                                     ELSE profiles[user].force_password_change]
        /\ logged_in' = IF login_response.status = 302 THEN logged_in \cup {user}
                        ELSE logged_in
        /\ IF login_response.status = 302
           THEN IF ProfileDoesNotExist(user)
                THEN /\ profiles' = profiles_after_login(user)
                     /\ response' = redirect("django.contrib.auth.views.password_change")
                ELSE /\ profiles' = profiles_after_login(user)
                     /\ response' =
                          IF profiles[user].force_password_change
                          THEN redirect("django.contrib.auth.views.password_change")
                          ELSE login_response
           ELSE /\ profiles' = profiles
                /\ response' = login_response
        /\ trace' = [raised |-> None, login_status |-> login_response.status]
        /\ emitted' = <<>>
        /\ UNCHANGED <<dbVars, confVars>>

CheckPasswordReset == \E user \in Users, valid \in BOOLEAN : check_password_reset(user, valid)

\* any users have a profile, with the flag either way
InitLogin ==
    /\ \E S \in SUBSET Users : profiles \in [S -> [force_password_change : BOOLEAN]]
    /\ logged_in = {}
    /\ patients = EmptyDict
    /\ episodes = <<>>
    /\ items = {}
    /\ tagging = {}
    /\ LIST_SCHEMAS = EmptyDict
    /\ column_schema = <<>>
    /\ templates = {}
    /\ request = NoRequest
    /\ response = NoResponse
    /\ emitted = <<>>
    /\ trace = NoTrace

NextLogin == CheckPasswordReset

SpecLogin == InitLogin /\ [][NextLogin]_vars

(***************************************************************************)
(* EpisodeTemplateView.get_column_context and _get_column_context          *)
(***************************************************************************)
\* the subrecord classes that are columns: class name, _is_singleton
Demographics == [__name__ |-> "Demographics", _is_singleton |-> TRUE]
PastMedicalHistory == [__name__ |-> "PastMedicalHistory", _is_singleton |-> FALSE]

\* opal.utils.camelcase_to_underscore, on the names of the column classes
camelcase_to_underscore(classname) ==
    CASE classname = "Demographics" -> "demographics"
      [] classname = "PastMedicalHistory" -> "past_medical_history"

\* name.replace('_', ' ').title()
title(name) ==
    CASE name = "demographics" -> "Demographics"
      [] name = "past_medical_history" -> "Past Medical History"

\* a Python list and a Python dict, told apart as isinstance tells them
List(l) == [kind |-> "list", v |-> l]
Dict(d) == [kind |-> "dict", v |-> d]

\* `key in container`: a key of a dict; an element of a list, and no str is
\* equal to a column class
PyIn(key, container) ==
    IF container.kind = "dict" THEN key \in DOMAIN container.v ELSE FALSE

\* the schemas of the deployment: four different lists of columns
OwnSchema == <<Demographics>>
DefaultSchema == <<Demographics, PastMedicalHistory>>
TeamDefaultSchema == <<PastMedicalHistory>>
SubteamSchema == <<PastMedicalHistory, Demographics>>

\* the values LIST_SCHEMAS can have after lines 43-46: schema.list_schemas has
\* 'default' (line 112 reads it), and team "t1" is absent or has any of its
\* 'default' and subteam "s1" entries
TeamSchemas ==
    [K \in SUBSET {"default", "s1"} |->
        Dict([k \in K |-> IF k = "s1" THEN SubteamSchema ELSE TeamDefaultSchema])]

ListSchemas ==
    {[k \in {"default"} |-> List(DefaultSchema)]}
    \cup {[k \in {"default", "t1"} |->
              IF k = "default" THEN List(DefaultSchema) ELSE TeamSchemas[K]] :
          K \in SUBSET {"default", "s1"}}

\* the keyword arguments of the URL: tag and subtag, each present or absent
Tags == {"t1", "t2", "default"}
Subtags == {"s1", "s2"}
Kwargs ==
    UNION {{[k \in D |-> IF k = "tag" THEN tag ELSE subtag] :
            tag \in Tags, subtag \in Subtags} : D \in SUBSET {"tag", "subtag"}}

\* active_schema without the elif of lines 89-90
active_schema_no_team_default(kwargs) ==
    IF "tag" \in DOMAIN kwargs /\ kwargs["tag"] \in DOMAIN LIST_SCHEMAS
    THEN IF "subtag" \in DOMAIN kwargs
            /\ PyIn(kwargs["subtag"], LIST_SCHEMAS[kwargs["tag"]])
         THEN [schema |-> LIST_SCHEMAS[kwargs["tag"]].v[kwargs["subtag"]],
               keys |-> <<kwargs["tag"], kwargs["subtag"]>>]
         ELSE [schema |-> LIST_SCHEMAS["default"].v, keys |-> <<"default">>]
    ELSE [schema |-> column_schema, keys |-> <<>>]

\* lines 85-92: the schema chosen, and the keys of LIST_SCHEMAS it was read
\* under (none when it is the view's own column_schema)
active_schema(kwargs) ==
    IF "tag" \in DOMAIN kwargs /\ kwargs["tag"] \in DOMAIN LIST_SCHEMAS
    THEN IF "subtag" \in DOMAIN kwargs
            /\ PyIn(kwargs["subtag"], LIST_SCHEMAS[kwargs["tag"]])
         THEN [schema |-> LIST_SCHEMAS[kwargs["tag"]].v[kwargs["subtag"]],
               keys |-> <<kwargs["tag"], kwargs["subtag"]>>]
         ELSE IF PyIn("default", LIST_SCHEMAS[kwargs["tag"]])
         THEN [schema |-> LIST_SCHEMAS[kwargs["tag"]].v["default"],
               keys |-> <<kwargs["tag"], "default">>]
         ELSE [schema |-> LIST_SCHEMAS["default"].v, keys |-> <<"default">>]
    ELSE [schema |-> column_schema, keys |-> <<>>]

\* header_templates with append in place of insert(0, ...)
header_templates_appended(name, kwargs) ==
    LET base == <<<<name, "_header.html">>>>
        with_tag == IF "tag" \in DOMAIN kwargs
                    THEN base \o <<<<"list_display", kwargs["tag"], name, "_header.html">>>>
                    ELSE base
    IN  IF "tag" \in DOMAIN kwargs /\ "subtag" \in DOMAIN kwargs
        THEN with_tag \o
             <<<<"list_display", kwargs["tag"], kwargs["subtag"], name, "_header.html">>>>
        ELSE with_tag

\* lines 336-344: the header templates to try, in the order tried
header_templates(name, kwargs) ==
    LET base == <<<<name, "_header.html">>>>
        with_tag == IF "tag" \in DOMAIN kwargs
                    THEN <<<<"list_display", kwargs["tag"], name, "_header.html">>>> \o base
                    ELSE base
    IN  IF "tag" \in DOMAIN kwargs /\ "subtag" \in DOMAIN kwargs
        THEN <<<<"list_display", kwargs["tag"], kwargs["subtag"], name, "_header.html">>>>
             \o with_tag
        ELSE with_tag

\* lines 349-351: the detail templates to try
detail_templates(name) ==
    <<<<name, "_detail.html">>, <<name, ".html">>, <<"records", name, ".html">>>>

\* django.template.loader.select_template(names).name: the first of the names
\* that exists; TemplateDoesNotExist when none does
TemplateDoesNotExist == <<"TemplateDoesNotExist">>
select_template(names) ==
    IF \E i \in 1..Len(names) : names[i] \in templates
    THEN names[CHOOSE i \in 1..Len(names) :
                 /\ names[i] \in templates
                 /\ \A j \in 1..(i - 1) : names[j] \notin templates]
    ELSE TemplateDoesNotExist

\* lines 326-356: the context of one column
column_context(column, kwargs) ==
    LET name == camelcase_to_underscore(column.__name__)
        header == select_template(header_templates(name, kwargs))
    IN  [name |-> name,
         title |-> title(name),
         single |-> column._is_singleton,
         detail_template_path |-> select_template(detail_templates(name)),
         header_template_path |-> IF header = TemplateDoesNotExist THEN <<>> ELSE header]

\* _get_column_context(schema, **kwargs): one context per column, or
\* TemplateDoesNotExist out of line 349 when a column has no detail template
_get_column_context(schema, kwargs) ==
    LET context == [i \in 1..Len(schema) |-> column_context(schema[i], kwargs)]
    IN  IF \E i \in 1..Len(schema) : context[i].detail_template_path = TemplateDoesNotExist
        THEN [raised |-> "TemplateDoesNotExist", context |-> <<>>]
        ELSE [raised |-> None, context |-> context]

\* EpisodeTemplateView.get_column_context(**kwargs)
get_column_context(kwargs) ==
    LET active == active_schema(kwargs)
        result == _get_column_context(active.schema, kwargs)
    IN  /\ request' = [view |-> "EpisodeTemplateView", kwargs |-> kwargs]
        /\ trace' = [raised |-> result.raised, active_schema |-> active.schema,
                     keys |-> active.keys]
        /\ response' = IF result.raised = None
                       THEN [status |-> 200, body |-> result.context]
                       ELSE ServerError
        /\ emitted' = <<>>
        /\ UNCHANGED <<dbVars, confVars, authVars>>

GetColumnContext == \E kwargs \in Kwargs : get_column_context(kwargs)

\* the template files a deployment may have for team "t1" and subteam "s1"
HeaderFiles ==
    UNION {{<<n, "_header.html">>,
            <<"list_display", "t1", n, "_header.html">>,
            <<"list_display", "t1", "s1", n, "_header.html">>} :
           n \in {"demographics", "past_medical_history"}}
DetailFiles ==
    {<<"demographics", "_detail.html">>,
     <<"records", "demographics", ".html">>,
     <<"records", "past_medical_history", ".html">>}

InitColumns ==
    /\ LIST_SCHEMAS \in ListSchemas
    /\ column_schema = OwnSchema
    /\ \E H \in SUBSET HeaderFiles, D \in SUBSET DetailFiles : templates = H \cup D
    /\ patients = EmptyDict
    /\ episodes = <<>>
    /\ items = {}
    /\ tagging = {}
    /\ profiles = EmptyDict
    /\ logged_in = {}
    /\ request = NoRequest
    /\ response = NoResponse
    /\ emitted = <<>>
    /\ trace = NoTrace

NextColumns == GetColumnContext

SpecColumns == InitColumns /\ [][NextColumns]_vars

(***************************************************************************)
(* The Episode, Patient, subrecord and Tagging tables, as the API views    *)
(* use them                                                                *)
(***************************************************************************)
\* consistency tokens: 0 is the empty token of a row never updated
Tokens == {1, 2}

\* opal.core.subrecords.episode_subrecords(): the episode subrecord models,
\* with _is_singleton.  Tagging is a table of its own, not a subrecord.
episode_subrecords ==
    {[__name__ |-> "Location", _is_singleton |-> TRUE],
     [__name__ |-> "Diagnosis", _is_singleton |-> FALSE],
     [__name__ |-> "Treatment", _is_singleton |-> FALSE]}

\* the next id of a table whose rows have the ids `ids`
NextId(ids) == IF ids = {} THEN 1 ELSE 1 + CHOOSE m \in ids : \A n \in ids : n <= m

\* the ids of the rows of subrecord table `sub`
TableIds(its, sub) == {i.id : i \in {j \in its : j.sub = sub}}

\* sub.objects.filter(episode=e)
ItemsOf(its, sub, e) == {i \in its : i.sub = sub /\ i.episode = e}

\* Episode.save() of a new row: the row, and one blank row of every singleton
\* episode subrecord
EpisodeSave(eps, its, row) ==
    LET id == Len(eps) + 1
    IN  [id |-> id,
         episodes |-> Append(eps, row),
         items |-> its \cup {[sub |-> s.__name__, id |-> NextId(TableIds(its, s.__name__)),
                              episode |-> id, value |-> 0] :
                             s \in {t \in episode_subrecords : t._is_singleton}}]

\* the tags of episode e that `user` sees: team tags, and the user's own 'mine'
TagNames(tags, e, user) ==
    {t.team : t \in {r \in tags : r.episode = e /\ (r.team = "mine" => r.user = user)}}

\* Episode.to_dict(user): the episode's fields, its tags and its subrecords
to_dict(eps, its, tags, e, user) ==
    [id |-> e, episode |-> eps[e], tagging |-> TagNames(tags, e, user),
     subrecords |-> {i \in its : i.episode = e}]

\* Episode.to_dict(user, shallow=True): the episode's fields alone
to_dict_shallow(eps, e) == [id |-> e, episode |-> eps[e]]

\* UpdatesFromDictMixin.update_from_dict(data, user) on the episode row `row`:
\* a row with a token wants the same token in the data; the fields in the
\* data are set and the row gets the fresh token new_token
update_from_dict(row, data, new_token) ==
    IF row.consistency_token # 0 /\ "consistency_token" \notin DOMAIN data
    THEN [raised |-> "APIError"]
    ELSE IF row.consistency_token # 0 /\ data["consistency_token"] # row.consistency_token
    THEN [raised |-> "ConsistencyError"]
    ELSE [raised |-> None,
          row |-> [row EXCEPT
                     !.date_of_admission =
                         IF "date_of_admission" \in DOMAIN data
                         THEN data["date_of_admission"] ELSE @,
                     !.consistency_token = new_token]]

\* Episode.set_tag_names(tag_names, user): the user's tags of the episode
\* become tag_names
set_tag_names(tags, e, tag_names, user) ==
    {r \in tags : ~(r.episode = e /\ r.team \in TagNames(tags, e, user) \ tag_names)}
    \cup {[episode |-> e, team |-> n, user |-> IF n = "mine" THEN user ELSE 0] :
          n \in tag_names \ TagNames(tags, e, user)}

\* Patient.get_active_episode() is not None
HasActiveEpisode(eps, patient) ==
    \E e \in DOMAIN eps : eps[e].patient = patient /\ eps[e].active

(***************************************************************************)
(* episode_detail_view                                                     *)
(***************************************************************************)
\* change_notifications with glossolalia.change called before update_from_dict
change_notifications_early(updated, pre, post) ==
    <<[signal |-> "change", pre |-> pre, post |-> post]>>

\* lines 200-204: glossolalia.change(pre, post) is reached when
\* update_from_dict has not raised
change_notifications(updated, pre, post) ==
    IF updated.raised = None
    THEN <<[signal |-> "change", pre |-> pre, post |-> post]>>
    ELSE <<>>

\* lines 189-207
episode_detail_view(method, pk, data, user, new_token) ==
    /\ request' = [view |-> "episode_detail_view", method |-> method, pk |-> pk,
                   existed |-> pk \in DOMAIN episodes]
    /\ IF pk \notin DOMAIN episodes
       THEN /\ response' = HttpResponseNotFound
            /\ emitted' = <<>>
            /\ trace' = [raised |-> None]
            /\ UNCHANGED episodes
       ELSE IF method = "GET"
       THEN /\ response' = _build_json_response(to_dict(episodes, items, tagging, pk, user), 200)
            /\ emitted' = <<>>
            /\ trace' = [raised |-> None]
            /\ UNCHANGED episodes
       ELSE LET pre == to_dict(episodes, items, tagging, pk, user)
                updated == update_from_dict(episodes[pk], data, new_token)
            IN  /\ trace' = [raised |-> updated.raised]
                /\ IF updated.raised = None
                   THEN /\ episodes' = [episodes EXCEPT ![pk] = updated.row]
                        /\ response' = _build_json_response(to_dict_shallow(episodes', pk), 200)
                   ELSE IF updated.raised = "ConsistencyError"
                   THEN /\ episodes' = episodes
                        /\ response' = _build_json_response([error |-> "Item has changed"], 409)
                   ELSE /\ episodes' = episodes
                        /\ response' = ServerError
                /\ emitted' = change_notifications(
                                  updated, pre, to_dict(episodes', items, tagging, pk, user))
    /\ UNCHANGED <<patients, items, tagging, confVars, authVars>>

(***************************************************************************)
(* episode_list_and_create_view                                            *)
(***************************************************************************)
\* EpisodeManager.serialised_active(user, **filter_kwargs): the active
\* episodes with a Tagging row that meets every tagging filter, serialised
serialised_active(user, filter_kwargs) ==
    {to_dict(episodes, items, tagging, e, user) :
        e \in {x \in DOMAIN episodes :
                 /\ episodes[x].active
                 /\ DOMAIN filter_kwargs # {} =>
                      \E r \in tagging :
                         /\ r.episode = x
                         /\ "tagging__team__name" \in DOMAIN filter_kwargs =>
                                r.team = filter_kwargs["tagging__team__name"]
                         /\ "tagging__user" \in DOMAIN filter_kwargs =>
                                r.user = filter_kwargs["tagging__user"]}}

\* a new Patient row: Patient.save() makes its blank Demographics
BlankDemographics == [hospital_number |-> Empty, name |-> Empty, date_of_birth |-> 0]

\* line 242: the names of the tags that are set
tag_names_of(data) == {n \in DOMAIN data["tagging"][1] : data["tagging"][1][n]}

\* lines 227-233, inside the try: Patient.create_episode(), which refuses a
\* patient with an active episode, then update_from_dict with the episode
\* fields of the data
create_and_update_episode(patient, data, new_token) ==
    IF HasActiveEpisode(episodes, patient)
    THEN [raised |-> "APIError"]
    ELSE LET saved == EpisodeSave(episodes, items,
                         [patient |-> patient, category |-> "inpatient",
                          date_of_admission |-> 0, active |-> FALSE,
                          consistency_token |-> 0])
             episode_data == [f \in DOMAIN data \cap {"date_of_admission", "consistency_token"}
                                |-> data[f]]
             updated == update_from_dict(saved.episodes[saved.id], episode_data, new_token)
         IN  IF updated.raised # None
             THEN [raised |-> updated.raised, id |-> saved.id,
                   episodes |-> saved.episodes, items |-> saved.items]
             ELSE [raised |-> None, id |-> saved.id,
                   episodes |-> [saved.episodes EXCEPT ![saved.id] = updated.row],
                   items |-> saved.items]

\* admit_notifications with the notification left out
admit_notifications_none(serialised) == <<>>

\* line 246: glossolalia.admit(serialised)
admit_notifications(serialised) == <<[signal |-> "admit", episode |-> serialised]>>

\* lines 239-247: after the try
admit_episode(created, data, user) ==
    IF "location" \notin DOMAIN data
    THEN /\ episodes' = created.episodes
         /\ items' = created.items
         /\ tagging' = tagging
         /\ trace' = [raised |-> "KeyError"]
         /\ emitted' = <<>>
         /\ response' = ServerError
    ELSE LET e == created.id
             tag_names == IF "tagging" \in DOMAIN data THEN tag_names_of(data) ELSE {}
         IN  /\ items' = {IF i.sub = "Location" /\ i.episode = e
                          THEN [i EXCEPT !.value = data["location"]] ELSE i :
                          i \in created.items}
             /\ tagging' = IF "tagging" \in DOMAIN data
                           THEN set_tag_names(tagging, e, tag_names, user)
                           ELSE tagging
             /\ episodes' = IF "tagging" \in DOMAIN data
                            THEN [created.episodes EXCEPT ![e].active = tag_names # {}]
                            ELSE created.episodes
             /\ trace' = [raised |-> None]
             /\ emitted' = admit_notifications(to_dict(episodes', items', tagging', e, user))
             /\ response' = _build_json_response(
                                to_dict(episodes', items', tagging', e, user), 201)

\* lines 211-247.  demographics_current: whether the demographics in the data
\* carry the patient's current consistency token
episode_list_and_create_view(method, data, user, demographics_current, new_token) ==
    IF method = "GET"
    THEN /\ request' = [view |-> "episode_list_and_create_view", method |-> "GET"]
         /\ response' = _build_json_response(serialised_active(user, EmptyDict), 200)
         /\ emitted' = <<>>
         /\ trace' = [raised |-> None]
         /\ UNCHANGED <<dbVars, confVars, authVars>>
    ELSE LET hospital_number == data["demographics"].hospital_number
             found == {p \in DOMAIN patients :
                          patients[p].hospital_number = hospital_number}
             create == hospital_number = Empty \/ found = {}
             patient == IF create THEN Len(patients) + 1 ELSE CHOOSE p \in found : TRUE
             patients1 == IF create THEN Append(patients, BlankDemographics) ELSE patients
         IN  /\ create => Len(patients) < MaxPatients
             /\ (/\ ~(hospital_number # Empty /\ Cardinality(found) > 1)
                 /\ ~(~create /\ ~demographics_current)
                 /\ ~HasActiveEpisode(episodes, patient)) => Len(episodes) < MaxEpisodes
             /\ request' = [view |-> "episode_list_and_create_view", method |-> "POST",
                            patient |-> patient, episodes_before |-> Len(episodes),
                            had_active |-> HasActiveEpisode(episodes, patient)]
             /\ IF hospital_number # Empty /\ Cardinality(found) > 1
                THEN /\ trace' = [raised |-> "MultipleObjectsReturned"]
                     /\ response' = ServerError
                     /\ emitted' = <<>>
                     /\ UNCHANGED dbVars
                ELSE IF ~create /\ ~demographics_current
                THEN /\ trace' = [raised |-> "ConsistencyError"]
                     /\ response' = ServerError
                     /\ emitted' = <<>>
                     /\ UNCHANGED dbVars
                ELSE LET created == create_and_update_episode(patient, data, new_token)
                     IN  /\ patients' = [patients1 EXCEPT
                                           ![patient].hospital_number = hospital_number]
                         /\ IF created.raised = "APIError"
                            THEN /\ trace' = [raised |-> "APIError"]
                                 /\ response' = _build_json_response(
                                       [error |-> "Patient already has active episode"], 400)
                                 /\ emitted' = <<>>
                                 /\ IF "id" \in DOMAIN created
                                    THEN episodes' = created.episodes /\ items' = created.items
                                    ELSE UNCHANGED <<episodes, items>>
                                 /\ UNCHANGED tagging
                            ELSE admit_episode(created, data, user)
             /\ UNCHANGED <<confVars, authVars>>

(***************************************************************************)
(* EpisodeListView                                                         *)
(***************************************************************************)
\* kwargs.get(key, None)
Get(kwargs, key) == IF key \in DOMAIN kwargs THEN kwargs[key] ELSE None

\* the truth value of a str or None: None and '' are false
Truthy(v) == v # None /\ v # ""

\* list_filter_kwargs with the test for 'mine' made one more elif
list_filter_kwargs_elif(kwargs, user) ==
    LET tag == Get(kwargs, "tag")
        subtag == Get(kwargs, "subtag")
    IN  IF Truthy(subtag)
        THEN SetItem(EmptyDict, "tagging__team__name", subtag)
        ELSE IF Truthy(tag)
        THEN SetItem(EmptyDict, "tagging__team__name", tag)
        ELSE IF tag = "mine"
        THEN SetItem(EmptyDict, "tagging__user", user)
        ELSE EmptyDict

\* lines 255-263
list_filter_kwargs(kwargs, user) ==
    LET tag == Get(kwargs, "tag")
        subtag == Get(kwargs, "subtag")
        team == IF Truthy(subtag)
                THEN SetItem(EmptyDict, "tagging__team__name", subtag)
                ELSE IF Truthy(tag)
                THEN SetItem(EmptyDict, "tagging__team__name", tag)
                ELSE EmptyDict
    IN  IF tag = "mine" THEN SetItem(team, "tagging__user", user) ELSE team

\* EpisodeListView.get(*args, **kwargs)
EpisodeListView_get(kwargs, user) ==
    LET filter_kwargs == list_filter_kwargs(kwargs, user)
    IN  /\ request' = [view |-> "EpisodeListView", kwargs |-> kwargs, user |-> user]
        /\ trace' = [raised |-> None, filter_kwargs |-> filter_kwargs]
        /\ response' = _build_json_response(serialised_active(user, filter_kwargs), 200)
        /\ emitted' = <<>>
        /\ UNCHANGED <<dbVars, confVars, authVars>>

(***************************************************************************)
(* EpisodeCopyToCategoryView                                               *)
(***************************************************************************)
\* copy_subrecords without the test of lines 280-281
RECURSIVE copy_subrecords_all(_, _, _, _)
copy_subrecords_all(its, subs, old, new) ==
    IF subs = {} THEN its
    ELSE LET sub == CHOOSE s \in subs : TRUE
             rows == ItemsOf(its, sub.__name__, old)
             base == NextId(TableIds(its, sub.__name__)) - 1
             order == [r \in rows |-> Cardinality({q \in rows : q.id <= r.id})]
             copied == {[r EXCEPT !.id = base + order[r], !.episode = new] : r \in rows}
         IN  copy_subrecords_all(its \cup copied, subs \ {sub}, old, new)

\* lines 279-285: the rows of the subrecord tables after the copying loop has
\* run over the subrecord models `subs` still to do
RECURSIVE copy_subrecords(_, _, _, _)
copy_subrecords(its, subs, old, new) ==
    IF subs = {} THEN its
    ELSE LET sub == CHOOSE s \in subs : TRUE
             rows == ItemsOf(its, sub.__name__, old)
             base == NextId(TableIds(its, sub.__name__)) - 1
             \* the rows of the queryset are saved in the order of their ids
             order == [r \in rows |-> Cardinality({q \in rows : q.id <= r.id})]
             copied == IF sub._is_singleton THEN {}
                       ELSE {[r EXCEPT !.id = base + order[r], !.episode = new] : r \in rows}
         IN  copy_subrecords(its \cup copied, subs \ {sub}, old, new)

\* EpisodeCopyToCategoryView.post(pk, category)
EpisodeCopyToCategoryView_post(pk, category, user) ==
    /\ request' = [view |-> "EpisodeCopyToCategoryView", pk |-> pk, category |-> category,
                   before |-> [episodes |-> episodes, items |-> items, tagging |-> tagging]]
    /\ IF pk \notin DOMAIN episodes
       THEN /\ trace' = [raised |-> "DoesNotExist"]
            /\ response' = ServerError
            /\ emitted' = <<>>
            /\ UNCHANGED dbVars
       ELSE LET old == episodes[pk]
                saved == EpisodeSave(episodes, items,
                            [patient |-> old.patient, category |-> category,
                             date_of_admission |-> old.date_of_admission,
                             active |-> FALSE, consistency_token |-> 0])
            IN  /\ Len(episodes) < MaxEpisodes
                /\ episodes' = saved.episodes
                /\ items' = copy_subrecords(saved.items, episode_subrecords, pk, saved.id)
                /\ UNCHANGED <<patients, tagging>>
                /\ trace' = [raised |-> None]
                /\ emitted' = admit_notifications(
                                  to_dict(episodes', items', tagging', saved.id, user))
                /\ response' = _build_json_response(
                                   to_dict(episodes', items', tagging', saved.id, user), 200)
    /\ UNCHANGED <<confVars, authVars>>

(***************************************************************************)
(* The specifications                                                      *)
(***************************************************************************)
\* the users of the API
Clinicians == {1, 2}

\* the request bodies of a PUT to an episode: without a consistency token,
\* or with one
PutData ==
    {EmptyDict} \cup {[k \in {"consistency_token"} |-> t] : t \in Tokens}

\* the request bodies of a POST of a new episode: without or with a hospital
\* number, a location and tags
HospitalNumbers == {Empty, <<"a">>}
TaggingData == {<<[t1 |-> FALSE]>>, <<[t1 |-> TRUE]>>}
PostData ==
    {[k \in D \cup {"demographics"} |->
         CASE k = "demographics" -> [hospital_number |-> hn]
           [] k = "location" -> 1
           [] k = "tagging" -> tg] :
     hn \in HospitalNumbers, tg \in TaggingData, D \in SUBSET {"location", "tagging"}}

Categories == {"inpatient", "outpatient"}

\* the keyword arguments of the episode list URL
ListKwargs ==
    UNION {{[k \in D |-> IF k = "tag" THEN tag ELSE subtag] :
            tag \in {"t1", "mine", ""}, subtag \in {"s1", ""}} :
           D \in SUBSET {"tag", "subtag"}}

EpisodeDetailGet ==
    \E pk \in 1..(MaxEpisodes + 1), user \in Clinicians :
        episode_detail_view("GET", pk, EmptyDict, user, 0)

EpisodeDetailPut ==
    \E pk \in 1..(MaxEpisodes + 1), data \in PutData, user \in Clinicians,
       new_token \in Tokens :
        episode_detail_view("PUT", pk, data, user, new_token)

EpisodeListGet ==
    \E user \in Clinicians : episode_list_and_create_view("GET", EmptyDict, user, TRUE, 0)

EpisodeCreatePost ==
    \E data \in PostData, user \in Clinicians, demographics_current \in BOOLEAN,
       new_token \in Tokens :
        episode_list_and_create_view("POST", data, user, demographics_current, new_token)

EpisodeList ==
    \E kwargs \in ListKwargs, user \in Clinicians : EpisodeListView_get(kwargs, user)

EpisodeCopyToCategory ==
    \E pk \in 1..(MaxEpisodes + 1), category \in Categories, user \in Clinicians :
        EpisodeCopyToCategoryView_post(pk, category, user)

\* nothing configured, nobody known, no request made
NoConf == LIST_SCHEMAS = EmptyDict /\ column_schema = <<>> /\ templates = {}
NoAuth == profiles = EmptyDict /\ logged_in = {}
NoTraffic ==
    request = NoRequest /\ response = NoResponse /\ emitted = <<>> /\ trace = NoTrace

\* the API on a database that starts empty
Init ==
    /\ patients = <<>>
    /\ episodes = <<>>
    /\ items = {}
    /\ tagging = {}
    /\ NoConf /\ NoAuth /\ NoTraffic

Next == EpisodeDetailGet \/ EpisodeDetailPut \/ EpisodeListGet \/ EpisodeCreatePost

Spec == Init /\ [][Next]_vars

\* the episode list on a database of two patients' episodes: each episode
\* active or not, tagged to team "t1", subteam "s1" or a user's 'mine'
ListTagging ==
    {[episode |-> 1, team |-> "t1", user |-> 0],
     [episode |-> 1, team |-> "s1", user |-> 0],
     [episode |-> 2, team |-> "t1", user |-> 0],
     [episode |-> 2, team |-> "mine", user |-> 1],
     [episode |-> 3, team |-> "mine", user |-> 2],
     [episode |-> 3, team |-> "s1", user |-> 0]}

InitList ==
    /\ patients = <<[BlankDemographics EXCEPT !.hospital_number = <<"a">>],
                    [BlankDemographics EXCEPT !.hospital_number = <<"b">>]>>
    /\ \E active \in [1..3 -> BOOLEAN] :
          episodes = [e \in 1..3 |->
                         [patient |-> IF e = 3 THEN 2 ELSE 1, category |-> "inpatient",
                          date_of_admission |-> 0, active |-> active[e],
                          consistency_token |-> 0]]
    /\ items = {[sub |-> "Location", id |-> e, episode |-> e, value |-> 0] : e \in 1..3}
    /\ tagging \in SUBSET ListTagging
    /\ NoConf /\ NoAuth /\ NoTraffic

NextList == EpisodeList

SpecList == InitList /\ [][NextList]_vars

\* copying on a database with one episode, which has any of these subrecords
\* and tags; copies can be copied again
CopyItems ==
    {[sub |-> "Diagnosis", id |-> 1, episode |-> 1, value |-> 1],
     [sub |-> "Diagnosis", id |-> 2, episode |-> 1, value |-> 1],
     [sub |-> "Diagnosis", id |-> 3, episode |-> 1, value |-> 2],
     [sub |-> "Treatment", id |-> 1, episode |-> 1, value |-> 1]}
CopyTagging ==
    {[episode |-> 1, team |-> "t1", user |-> 0],
     [episode |-> 1, team |-> "mine", user |-> 1]}

InitCopy ==
    /\ patients = <<[BlankDemographics EXCEPT !.hospital_number = <<"a">>]>>
    /\ tagging \in SUBSET CopyTagging
    /\ \E date_of_admission \in {0, 1}, token \in {0} \cup Tokens :
          episodes = <<[patient |-> 1, category |-> "inpatient",
                        date_of_admission |-> date_of_admission,
                        active |-> tagging # {}, consistency_token |-> token]>>
    /\ \E ward \in {0, 1}, rows \in SUBSET CopyItems :
          items = rows \cup {[sub |-> "Location", id |-> 1, episode |-> 1, value |-> ward]}
    /\ NoConf /\ NoAuth /\ NoTraffic

NextCopy == EpisodeCopyToCategory

SpecCopy == InitCopy /\ [][NextCopy]_vars

(***************************************************************************)
(* Properties                                                              *)
(***************************************************************************)
IsDetailPut ==
    request.view = "episode_detail_view" /\ request.method = "PUT" /\ request.existed

\* C1: a PUT to an existing episode that update_from_dict rejects with
\* ConsistencyError is answered with the JSON body {'error': 'Item has
\* changed'} and status 409, and no change notification is sent for it.
C1_ConflictIs409WithoutChange ==
    (IsDetailPut /\ trace.raised = "ConsistencyError") =>
        /\ response.status = 409
        /\ response.body = [error |-> "Item has changed"]
        /\ \A i \in 1..Len(emitted) : emitted[i].signal # "change"

\* a PUT with a stale token was rejected, on an episode made by a POST
C1_Witness ==
    /\ IsDetailPut
    /\ trace.raised = "ConsistencyError"
    /\ episodes[request.pk].consistency_token # 0

IsCreatePost ==
    request.view = "episode_list_and_create_view" /\ request.method = "POST"

\* C2: a POST in which creating or updating the episode raises APIError is
\* answered {'error': 'Patient already has active episode'} with status 400
\* and sends no admit notification; every other POST that completes (that
\* raises nothing) is answered 201 with the serialised new episode and sends
\* exactly one admit notification, carrying that same serialisation.
C2_CreateAnswers ==
    IsCreatePost =>
        /\ trace.raised = "APIError" =>
              /\ response.status = 400
              /\ response.body = [error |-> "Patient already has active episode"]
              /\ emitted = <<>>
        /\ (trace.raised # "APIError" /\ response.status # 500) =>
              /\ response.status = 201
              /\ Len(episodes) = request.episodes_before + 1
              /\ \E user \in Clinicians :
                    response.body = to_dict(episodes, items, tagging, Len(episodes), user)
              /\ Len(emitted) = 1
              /\ emitted[1].signal = "admit"
              /\ emitted[1].episode = response.body

\* a POST for a patient who has an active episode was refused
C2_Witness ==
    /\ IsCreatePost
    /\ trace.raised = "APIError"
    /\ request.had_active
    /\ Len(episodes) >= 1

\* the terms of the query, as the claim reads them
EqualIgnoringCase(a, b) == Lower(a) = Lower(b)
ContainsIgnoringCase(a, b) ==
    \E i \in 1..(Len(a) + 1) :
        /\ i + Len(b) - 1 <= Len(a)
        /\ Lower(SubSeq(a, i, i + Len(b) - 1)) = Lower(b)
MatchesEveryTerm(p, GET) ==
    /\ "hospital_number" \in DOMAIN GET =>
          EqualIgnoringCase(patients[p].hospital_number, GET["hospital_number"])
    /\ "name" \in DOMAIN GET => ContainsIgnoringCase(patients[p].name, GET["name"])

IsSearch == request.view = "patient_search_view"

\* C3: a search with neither 'hospital_number' nor 'name' is answered
\* {'error': 'No search terms'} with status 400 and runs no patient query; a
\* search with at least one of them returns exactly the patients matching every
\* term given (hospital number equal ignoring case, name containing the term
\* ignoring case), each once, in the order of their dates of birth.
C3_SearchAnswers ==
    IsSearch =>
        IF DOMAIN request.GET = {}
        THEN /\ response.status = 400
             /\ response.body = [error |-> "No search terms"]
             /\ ~trace.queried
        ELSE /\ response.status = 200
             /\ trace.queried
             /\ {response.body[i].id : i \in 1..Len(response.body)} =
                    {p \in DOMAIN patients : MatchesEveryTerm(p, request.GET)}
             /\ \A i, j \in 1..Len(response.body) :
                    i < j => /\ response.body[i].id # response.body[j].id
                             /\ response.body[i].demographics.date_of_birth
                                    <= response.body[j].demographics.date_of_birth
             /\ \A i \in 1..Len(response.body) :
                    response.body[i].demographics = patients[response.body[i].id]

\* a search on both terms, in the other letter case, found two patients and
\* returned the one born first before the one with the smaller id
C3_Witness ==
    /\ IsSearch
    /\ DOMAIN request.GET = {"hospital_number", "name"}
    /\ request.GET["name"] = <<"B">>
    /\ response.status = 200
    /\ Len(response.body) = 2
    /\ response.body[1].id > response.body[2].id

IsColumns == request.view = "EpisodeTemplateView"

\* key is a key of the dict held under LIST_SCHEMAS[tag]
IsKeyOf(key, tag) ==
    LIST_SCHEMAS[tag].kind = "dict" /\ key \in DOMAIN LIST_SCHEMAS[tag].v

\* the schema the claim names for the keyword arguments
ClaimedSchema(kwargs) ==
    IF "tag" \notin DOMAIN kwargs \/ kwargs["tag"] \notin DOMAIN LIST_SCHEMAS
    THEN column_schema
    ELSE IF "subtag" \in DOMAIN kwargs /\ IsKeyOf(kwargs["subtag"], kwargs["tag"])
    THEN LIST_SCHEMAS[kwargs["tag"]].v[kwargs["subtag"]]
    ELSE IF IsKeyOf("default", kwargs["tag"])
    THEN LIST_SCHEMAS[kwargs["tag"]].v["default"]
    ELSE LIST_SCHEMAS["default"].v

\* C4: get_column_context uses the view's own column_schema when tag is absent
\* or no key of LIST_SCHEMAS; otherwise LIST_SCHEMAS[tag][subtag] when subtag
\* is given and a key there, else LIST_SCHEMAS[tag]['default'] when that key
\* exists, else LIST_SCHEMAS['default'].  One schema is chosen, and the subtag
\* is looked up only under a tag that is a key of LIST_SCHEMAS.
C4_SchemaResolution ==
    IsColumns =>
        /\ trace.active_schema = ClaimedSchema(request.kwargs)
        /\ trace.keys \in {<<>>, <<"default">>}
              \cup {<<t, k>> : t \in DOMAIN LIST_SCHEMAS, k \in Subtags \cup {"default"}}
        /\ (Len(trace.keys) = 2 /\ trace.keys[2] # "default") =>
              /\ "tag" \in DOMAIN request.kwargs
              /\ "subtag" \in DOMAIN request.kwargs
              /\ trace.keys = <<request.kwargs["tag"], request.kwargs["subtag"]>>
              /\ request.kwargs["tag"] \in DOMAIN LIST_SCHEMAS

\* the team has schemas, the subtag given is none of them, and the team's
\* default was used, which is not the default of LIST_SCHEMAS
C4_Witness ==
    /\ IsColumns
    /\ request.kwargs = [tag |-> "t1", subtag |-> "s2"]
    /\ "t1" \in DOMAIN LIST_SCHEMAS
    /\ trace.active_schema = TeamDefaultSchema

\* the header template the claim names for a column: the most specific of the
\* candidates that exists, '' when none does
ClaimedHeader(name, kwargs) ==
    LET tagged == "tag" \in DOMAIN kwargs
        subtagged == tagged /\ "subtag" \in DOMAIN kwargs
        for_subtag == IF subtagged
                      THEN <<"list_display", kwargs["tag"], kwargs["subtag"], name,
                             "_header.html">>
                      ELSE <<>>
        for_tag == IF tagged
                   THEN <<"list_display", kwargs["tag"], name, "_header.html">>
                   ELSE <<>>
        plain == <<name, "_header.html">>
    IN  IF subtagged /\ for_subtag \in templates THEN for_subtag
        ELSE IF tagged /\ for_tag \in templates THEN for_tag
        ELSE IF plain \in templates THEN plain
        ELSE <<>>

\* C8: _get_column_context returns one entry per column of the schema, in the
\* order of the schema, and each entry's header_template_path is the first that
\* exists of 'list_display/<tag>/<subtag>/<name>_header.html' (tag and subtag
\* given), 'list_display/<tag>/<name>_header.html' (tag given) and
\* '<name>_header.html', or '' when none exists.
C8_HeaderTemplates ==
    (IsColumns /\ trace.raised = None) =>
        /\ Len(response.body) = Len(trace.active_schema)
        /\ \A i \in 1..Len(response.body) :
              /\ response.body[i].name =
                     camelcase_to_underscore(trace.active_schema[i].__name__)
              /\ response.body[i].header_template_path =
                     ClaimedHeader(response.body[i].name, request.kwargs)

\* two columns; the subteam's header does not exist, the team's and the plain
\* one do, and the team's was taken
C8_Witness ==
    /\ IsColumns
    /\ trace.raised = None
    /\ request.kwargs = [tag |-> "t1", subtag |-> "s1"]
    /\ Len(response.body) = 2
    /\ <<"list_display", "t1", "s1", "demographics", "_header.html">> \notin templates
    /\ <<"demographics", "_header.html">> \in templates
    /\ \E i \in 1..2 : response.body[i].header_template_path =
                           <<"list_display", "t1", "demographics", "_header.html">>

IsCopy == request.view = "EpisodeCopyToCategoryView" /\ trace.raised = None

\* the rows of subrecord `sub` with value `value` that episode e has in `its`
RowsWith(its, sub, e, value) == {i \in ItemsOf(its, sub, e) : i.value = value}
Values == {i.value : i \in items}

\* C5: after EpisodeCopyToCategoryView.post there is exactly one new episode,
\* with the old episode's patient and date_of_admission and the category asked
\* for; of every non-singleton episode subrecord the new episode has one copy
\* of each row of the old episode; no singleton subrecord of the old episode
\* (the new episode's are blank) and no tagging is copied to the new episode.
C5_CopyExcludesSingletonsAndTagging ==
    IsCopy =>
        LET before == request.before
            old == request.pk
            new == Len(episodes)
        IN  /\ Len(episodes) = Len(before.episodes) + 1
            /\ SubSeq(episodes, 1, Len(before.episodes)) = before.episodes
            /\ episodes[new].patient = before.episodes[old].patient
            /\ episodes[new].date_of_admission = before.episodes[old].date_of_admission
            /\ episodes[new].category = request.category
            /\ \A sub \in episode_subrecords :
                  IF sub._is_singleton
                  THEN \A i \in ItemsOf(items, sub.__name__, new) : i.value = 0
                  ELSE \A v \in Values :
                          Cardinality(RowsWith(items, sub.__name__, new, v)) =
                          Cardinality(RowsWith(before.items, sub.__name__, old, v))
            /\ before.items \subseteq items
            /\ tagging = before.tagging
            /\ \A r \in tagging : r.episode # new

\* the episode copied had a ward, tags, and two diagnoses that are the same
C5_Witness ==
    /\ IsCopy
    /\ request.before.tagging # {}
    /\ \E i \in ItemsOf(items, "Location", request.pk) : i.value = 1
    /\ Cardinality(RowsWith(items, "Diagnosis", request.pk, 1)) = 2
    /\ ItemsOf(items, "Treatment", request.pk) # {}

IsLogin == request.view = "check_password_reset"
PasswordChange == redirect("django.contrib.auth.views.password_change")

\* C6: when the wrapped login does not answer 302 its response is returned as
\* it is and no profile is created; when it answers 302, a user whose profile
\* has force_password_change set is redirected to the password change, a user
\* with no profile gets one with force_password_change=True and is redirected
\* to the password change, and only a user with a profile whose flag is unset
\* gets the login's own redirect.  So a user who has logged in has a profile.
C6_PasswordReset ==
    /\ logged_in \subseteq DOMAIN profiles
    /\ IsLogin =>
          /\ trace.login_status # 302 =>
                /\ response = login(request.valid)
                /\ (request.user \in DOMAIN profiles) = request.had_profile
          /\ trace.login_status = 302 =>
                /\ request.user \in DOMAIN profiles
                /\ (request.had_profile /\ request.had_force) => response = PasswordChange
                /\ ~request.had_profile =>
                      /\ profiles[request.user].force_password_change
                      /\ response = PasswordChange
                /\ (request.had_profile /\ ~request.had_force) =>
                      response = login(request.valid)
                /\ response = login(request.valid) =>
                      (request.had_profile /\ ~request.had_force)

\* a user without a profile logged in, and was sent to change the password
C6_Witness ==
    /\ IsLogin
    /\ trace.login_status = 302
    /\ ~request.had_profile
    /\ response = PasswordChange

IsList == request.view = "EpisodeListView"

\* a tag or subtag is given when the URL has it and it is not empty
Given(kwargs, key) == key \in DOMAIN kwargs /\ kwargs[key] # ""

\* C7: EpisodeListView.get filters on the team name by the subtag when a
\* subtag is given, otherwise by the tag when a tag is given, otherwise not at
\* all; it filters on the tagging user, the user of the request, exactly when
\* the tag is 'mine', whether or not a subtag is given.
C7_ListFilters ==
    IsList =>
        LET kwargs == request.kwargs
            filter_kwargs == trace.filter_kwargs
        IN  /\ Given(kwargs, "subtag") =>
                  /\ "tagging__team__name" \in DOMAIN filter_kwargs
                  /\ filter_kwargs["tagging__team__name"] = kwargs["subtag"]
            /\ (~Given(kwargs, "subtag") /\ Given(kwargs, "tag")) =>
                  /\ "tagging__team__name" \in DOMAIN filter_kwargs
                  /\ filter_kwargs["tagging__team__name"] = kwargs["tag"]
            /\ (~Given(kwargs, "subtag") /\ ~Given(kwargs, "tag")) =>
                  "tagging__team__name" \notin DOMAIN filter_kwargs
            /\ "tagging__user" \in DOMAIN filter_kwargs <=>
                  ("tag" \in DOMAIN kwargs /\ kwargs["tag"] = "mine")
            /\ "tagging__user" \in DOMAIN filter_kwargs =>
                  filter_kwargs["tagging__user"] = request.user
            /\ DOMAIN filter_kwargs \subseteq {"tagging__team__name", "tagging__user"}
            /\ response.body = serialised_active(request.user, filter_kwargs)

\* the list of 'mine' under a subtag: both filters are set
C7_Witness ==
    /\ IsList
    /\ request.kwargs = [tag |-> "mine", subtag |-> "s1"]
    /\ DOMAIN trace.filter_kwargs = {"tagging__team__name", "tagging__user"}

====
